---- MODULE Spec2Model ----
(***************************************************************************)
(* Food API gateway (src/src/index.ts): the GET /foods handler, the global *)
(* error handler and the nutrient normalization helpers.                   *)
(*                                                                         *)
(* Strings are sequences of one-character strings.  JavaScript values are  *)
(* records [t |-> tag, n |-> number, s |-> string, a |-> elements,         *)
(* o |-> fields] with tags undef, null, bool, num, inf, nan, str, arr, obj. *)
(* A finite number is held in thousandths, so 23.9 is 23900.               *)
(***************************************************************************)
EXTENDS Integers, Sequences, FiniteSets, TLC

VARIABLES
    usdaApiKey,   \* process.env.USDA_API_KEY, read once at start: a JS value
    pc,           \* stage of the request in the /foods handler
    req,          \* req.query: [type, limit], JS values
    query,        \* the trimmed food type of the handler
    limit,        \* the parsed limit of the handler
    upstream,     \* what fetch produced: a thrown error or a response
    data,         \* the parsed success body
    normalized,   \* the normalized food list
    fetchCount,   \* number of upstream calls made for the request
    resp,         \* the HTTP response sent
    fnIn,         \* arguments of the nutrient helper under test
    fnOut,        \* result of the nutrient helper under test
    hits,         \* the limiter's store: requests counted per client address
    reached,      \* requests per client address that reached a route handler
                  \* in the client's current window
    pending,      \* requests per client address that arrived and wait for
                  \* the limiter
    answer        \* what the limiter did with the request it saw last

vars == <<usdaApiKey, pc, req, query, limit, upstream, data, normalized,
          fetchCount, resp, fnIn, fnOut, hits, reached, pending, answer>>

limiterVars == <<hits, reached, pending, answer>>

handlerVars == <<usdaApiKey, pc, req, query, limit, upstream, data,
                 normalized, fetchCount, resp>>

----------------------------------------------------------------------------
(* Bounds of the model *)

MaxTypeLen == 2
MaxSmallLimit == 1
MaxNutrients == 2
MaxMilli == 10
MaxOver == 2
MaxPending == 1

----------------------------------------------------------------------------
(* JavaScript values *)

NoFields == [none |-> 0]
JsValue(t, n, s, a, o) == [t |-> t, n |-> n, s |-> s, a |-> a, o |-> o]

Undef == JsValue("undef", 0, <<>>, <<>>, NoFields)
Null == JsValue("null", 0, <<>>, <<>>, NoFields)
Bool(b) == JsValue("bool", IF b THEN 1 ELSE 0, <<>>, <<>>, NoFields)
Num(n) == JsValue("num", n, <<>>, <<>>, NoFields)
Inf == JsValue("inf", 0, <<>>, <<>>, NoFields)
NaN == JsValue("nan", 0, <<>>, <<>>, NoFields)
Str(s) == JsValue("str", 0, s, <<>>, NoFields)
Arr(a) == JsValue("arr", 0, <<>>, a, NoFields)
Obj(o) == JsValue("obj", 0, <<>>, <<>>, o)

\* x ?? y
Nullish(x) == x.t \in {"undef", "null"}

\* !x
Falsy(x) ==
    \/ x.t \in {"undef", "null", "nan"}
    \/ x.t = "bool" /\ x.n = 0
    \/ x.t = "num" /\ x.n = 0
    \/ x.t = "str" /\ x.s = <<>>

\* o?.k and o.k on a value that is neither null nor undefined
Get(o, k) == IF o.t = "obj" /\ k \in DOMAIN o.o THEN o.o[k] ELSE Undef

----------------------------------------------------------------------------
(* Characters and strings *)

LowerCase == <<"a", "b", "c", "d", "e", "f", "g", "h", "i", "j", "k", "l", "m",
               "n", "o", "p", "q", "r", "s", "t", "u", "v", "w", "x", "y", "z">>
UpperCase == <<"A", "B", "C", "D", "E", "F", "G", "H", "I", "J", "K", "L", "M",
               "N", "O", "P", "Q", "R", "S", "T", "U", "V", "W", "X", "Y", "Z">>
Digits == <<"0", "1", "2", "3", "4", "5", "6", "7", "8", "9">>

Range(s) == {s[i] : i \in DOMAIN s}

Letters == Range(LowerCase) \cup Range(UpperCase)
DigitChars == Range(Digits)

IsLetter(c) == c \in Letters
IsDigit(c) == c \in DigitChars
\* \s
IsSpace(c) == c \in {" ", "\t", "\n"}
\* \w
IsWord(c) == IsLetter(c) \/ IsDigit(c) \/ c = "_"

DigitValue(c) == (CHOOSE i \in DOMAIN Digits : Digits[i] = c) - 1

ToLowerChar(c) ==
    IF c \in Range(UpperCase)
    THEN LowerCase[CHOOSE i \in DOMAIN UpperCase : UpperCase[i] = c]
    ELSE c

\* String.prototype.toLowerCase
ToLowerCase(s) == [i \in DOMAIN s |-> ToLowerChar(s[i])]

\* String.prototype.trim
Trim(s) ==
    LET keep == {i \in DOMAIN s : ~IsSpace(s[i])}
    IN  IF keep = {} THEN <<>>
        ELSE LET lo == CHOOSE i \in keep : \A j \in keep : i <= j
                 hi == CHOOSE i \in keep : \A j \in keep : j <= i
             IN  SubSeq(s, lo, hi)

RECURSIVE DigitsValue(_)
DigitsValue(s) ==
    IF s = <<>> THEN 0
    ELSE 10 * DigitsValue(SubSeq(s, 1, Len(s) - 1)) + DigitValue(s[Len(s)])

RECURSIVE NatToDigits(_)
NatToDigits(n) ==
    IF n < 10 THEN <<Digits[n + 1]>>
    ELSE NatToDigits(n \div 10) \o <<Digits[(n % 10) + 1]>>

\* Every string over alphabet of length at most n
RECURSIVE AllSeqs(_, _)
AllSeqs(alphabet, n) ==
    IF n = 0 THEN {<<>>}
    ELSE LET shorter == AllSeqs(alphabet, n - 1)
         IN  shorter \cup {Append(s, c) : s \in {x \in shorter : Len(x) = n - 1},
                                          c \in alphabet}

----------------------------------------------------------------------------
(* Error classes *)

NoOriginal == [t |-> "undef", v |-> <<>>]
ErrorObject(message) == [t |-> "error", v |-> message]

MakeError(name, message, statusCode, upstreamStatus, upstreamResponse, originalError) ==
    [name |-> name, message |-> message, statusCode |-> statusCode,
     upstreamStatus |-> upstreamStatus, upstreamResponse |-> upstreamResponse,
     originalError |-> originalError]

ValidationError(message) ==
    MakeError("ValidationError", message, 400, 0, Undef, NoOriginal)

ConfigurationError(message) ==
    MakeError("ConfigurationError", message, 500, 0, Undef, NoOriginal)

\* mutant: 504 Gateway Timeout in place of 503
NetworkErrorAs504(message, originalError) ==
    MakeError("NetworkError", message, 504, 0, Undef, originalError)

NetworkError(message, originalError) ==
    MakeError("NetworkError", message, 503, 0, Undef, originalError)

ParsingError(message, originalError) ==
    MakeError("ParsingError", message, 422, 0, Undef, originalError)

\* mutant: > 500 in place of >= 500
UpstreamStatusCodeAbove500(upstreamStatus) ==
    IF upstreamStatus > 500 THEN 503 ELSE upstreamStatus

UpstreamStatusCode(upstreamStatus) ==
    IF upstreamStatus >= 500 THEN 503 ELSE upstreamStatus

UpstreamAPIError(message, upstreamStatus, upstreamResponse) ==
    MakeError("UpstreamAPIError", message, UpstreamStatusCode(upstreamStatus),
              upstreamStatus, upstreamResponse, NoOriginal)

FoodTypeError(message) ==
    MakeError("FoodTypeError", message, 400, 0, Undef, NoOriginal)

\* A value thrown that is none of the six classes (a TypeError, say)
OtherError(message) ==
    MakeError("Error", message, 0, 0, Undef, NoOriginal)

CustomErrorClasses ==
    {"ValidationError", "ConfigurationError", "NetworkError", "ParsingError",
     "UpstreamAPIError", "FoodTypeError"}

----------------------------------------------------------------------------
(* Global error handler *)

Timestamp == "new Date().toISOString()"

NoResponse == [status |-> 0, body |-> [pending |-> TRUE]]

ErrorHandler(err) ==
    IF err.name \in CustomErrorClasses
    THEN LET base == [error |-> err.message, type |-> err.name,
                      timestamp |-> Timestamp]
             withUpstream ==
                 IF err.name = "UpstreamAPIError"
                 THEN IF ~Falsy(err.upstreamResponse)
                      THEN [upstream_status |-> err.upstreamStatus,
                            upstream_details |-> err.upstreamResponse] @@ base
                      ELSE [upstream_status |-> err.upstreamStatus] @@ base
                 ELSE base
             withOriginal ==
                 IF err.name \in {"NetworkError", "ParsingError"}
                    /\ err.originalError.t = "error"
                 THEN [original_error |-> err.originalError.v] @@ withUpstream
                 ELSE withUpstream
         IN  [status |-> err.statusCode, body |-> withOriginal]
    ELSE [status |-> 500,
          body |-> [error |-> err.message, type |-> "InternalServerError",
                    timestamp |-> Timestamp,
                    message |-> <<"Please try again later or contact support if the problem persists.">>]]

----------------------------------------------------------------------------
(* validateFoodsQuery: the express-validator chains of the /foods route *)

\* the validator's string form of a query value (undefined becomes '')
FieldString(x) == IF x.t = "str" THEN x.s ELSE <<>>

\* /^[a-zA-Z0-9\s\-_]+$/
MatchesTypePattern(s) ==
    /\ s # <<>>
    /\ \A i \in DOMAIN s : IsLetter(s[i]) \/ IsDigit(s[i]) \/ IsSpace(s[i])
                             \/ s[i] \in {"-", "_"}

\* isInt({ min: 1, max: 50 }): an optional sign and digits, value in range
IsInt(s, min, max) ==
    LET signed == s # <<>> /\ s[1] \in {"+", "-"}
        digits == IF signed THEN Tail(s) ELSE s
        value == IF signed /\ s[1] = "-" THEN 0 - DigitsValue(digits)
                 ELSE DigitsValue(digits)
    IN  /\ digits # <<>>
        /\ \A i \in DOMAIN digits : IsDigit(digits[i])
        /\ min <= value /\ value <= max

\* query('type').trim().notEmpty().isLength({min: 1, max: 100}).matches(...)
TypeErrors(q) ==
    LET s == Trim(FieldString(q.type))
    IN  (IF s = <<>>
         THEN <<"Missing required query parameter 'type'">> ELSE <<>>)
        \o (IF Len(s) < 1 \/ Len(s) > 100
            THEN <<"Food type must be between 1 and 100 characters">> ELSE <<>>)
        \o (IF ~MatchesTypePattern(s)
            THEN <<"Food type can only contain letters, numbers, spaces, hyphens, and underscores">>
            ELSE <<>>)

\* mutant: isInt() without its min and max options
LimitErrorsNoRange(q) ==
    IF q.limit.t = "undef" THEN <<>>
    ELSE IF ~IsInt(FieldString(q.limit), -1000000, 1000000)
         THEN <<"Limit must be a number between 1 and 50">>
         ELSE <<>>

\* query('limit').optional().isInt({ min: 1, max: 50 })
LimitErrors(q) ==
    IF q.limit.t = "undef" THEN <<>>
    ELSE IF ~IsInt(FieldString(q.limit), 1, 50)
         THEN <<"Limit must be a number between 1 and 50">>
         ELSE <<>>

\* validationResult(req).array(), messages only
ValidationErrors(q) == TypeErrors(q) \o LimitErrors(q)

\* the request after the chains ran: the trim sanitizer rewrites req.query.type
Sanitized(q) ==
    [q EXCEPT !.type = IF q.type.t = "str" THEN Str(Trim(q.type.s)) ELSE q.type]

----------------------------------------------------------------------------
(* Number.parseInt(s, 10) *)

ParseInt(s) ==
    LET notSpace == {i \in DOMAIN s : ~IsSpace(s[i])}
        start == IF notSpace = {} THEN Len(s) + 1
                 ELSE CHOOSE i \in notSpace : \A j \in notSpace : i <= j
        rest == SubSeq(s, start, Len(s))
        signed == rest # <<>> /\ rest[1] \in {"+", "-"}
        body == IF signed THEN Tail(rest) ELSE rest
        stops == {i \in DOMAIN body : ~IsDigit(body[i])}
        n == IF stops = {} THEN Len(body)
             ELSE (CHOOSE i \in stops : \A j \in stops : i <= j) - 1
        magnitude == DigitsValue(SubSeq(body, 1, n))
    IN  IF n = 0 THEN [nan |-> TRUE, val |-> 0]
        ELSE [nan |-> FALSE,
              val |-> IF signed /\ rest[1] = "-" THEN 0 - magnitude ELSE magnitude]

Min(a, b) == IF a <= b THEN a ELSE b

----------------------------------------------------------------------------
(* Semantic food type checks *)

\* mutant: /^\d$/, the + forgotten
OnlySingleDigit(s) == Len(s) = 1 /\ IsDigit(s[1])

\* /^\d+$/
OnlyNumbers(s) == s # <<>> /\ \A i \in DOMAIN s : IsDigit(s[i])

\* /^[^\w\s]+$/
OnlySpecial(s) == s # <<>> /\ \A i \in DOMAIN s : ~IsWord(s[i]) /\ ~IsSpace(s[i])

ReservedWords ==
    {<<"t", "e", "s", "t">>, <<"d", "e", "b", "u", "g">>,
     <<"a", "d", "m", "i", "n">>, <<"s", "y", "s", "t", "e", "m">>}

\* /^(test|debug|admin|system)$/i
IsReserved(s) == ToLowerCase(s) \in ReservedWords

problematicPatterns(s) == OnlyNumbers(s) \/ OnlySpecial(s) \/ IsReserved(s)

----------------------------------------------------------------------------
(* JavaScript conversions used by the nutrient helpers *)

Abs(n) == IF n < 0 THEN 0 - n ELSE n

\* the fraction digits of a number of thousandths, trailing zeros dropped
FractionDigits(m) ==
    IF m % 1000 = 0 THEN <<>>
    ELSE IF m % 100 = 0 THEN <<".", Digits[(m \div 100) + 1]>>
    ELSE IF m % 10 = 0
         THEN <<".", Digits[(m \div 100) + 1], Digits[((m \div 10) % 10) + 1]>>
         ELSE <<".", Digits[(m \div 100) + 1], Digits[((m \div 10) % 10) + 1],
                Digits[(m % 10) + 1]>>

\* String(x); an array joins its elements with commas, null and undefined
\* elements as the empty string
RECURSIVE JsString(_)
RECURSIVE JoinFrom(_, _)
JoinFrom(strings, i) ==
    IF i > Len(strings) THEN <<>>
    ELSE IF i = Len(strings) THEN strings[i]
    ELSE strings[i] \o <<",">> \o JoinFrom(strings, i + 1)

JsString(x) ==
    CASE x.t = "str" -> x.s
      [] x.t = "num" ->
            (IF x.n < 0 THEN <<"-">> ELSE <<>>)
            \o NatToDigits(Abs(x.n) \div 1000) \o FractionDigits(Abs(x.n) % 1000)
      [] x.t = "undef" -> <<"u", "n", "d", "e", "f", "i", "n", "e", "d">>
      [] x.t = "null" -> <<"n", "u", "l", "l">>
      [] x.t = "bool" -> IF x.n = 1 THEN <<"t", "r", "u", "e">>
                         ELSE <<"f", "a", "l", "s", "e">>
      [] x.t = "inf" -> <<"I", "n", "f", "i", "n", "i", "t", "y">>
      [] x.t = "nan" -> <<"N", "a", "N">>
      [] x.t = "arr" ->
            JoinFrom([i \in DOMAIN x.a |->
                         IF x.a[i].t \in {"undef", "null"} THEN <<>>
                         ELSE JsString(x.a[i])], 1)
      [] OTHER -> <<"[", "o", "b", "j", "e", "c", "t", " ", "O", "b", "j", "e", "c", "t", "]">>

\* Number(s) for a string: blank is 0, a decimal literal of at most three
\* fraction digits is its value, Infinity is infinite, anything else NaN
\* (exponents and radix prefixes are outside the strings the model draws)
StringToNumber(s) ==
    LET u == Trim(s)
        signed == u # <<>> /\ u[1] \in {"+", "-"}
        body == IF signed THEN Tail(u) ELSE u
        dots == {i \in DOMAIN body : body[i] = "."}
        dot == IF dots = {} THEN Len(body) + 1
               ELSE CHOOSE i \in dots : \A j \in dots : i <= j
        whole == SubSeq(body, 1, dot - 1)
        frac == SubSeq(body, dot + 1, Len(body))
        padded == SubSeq(frac \o <<"0", "0", "0">>, 1, 3)
        magnitude == 1000 * DigitsValue(whole) + DigitsValue(padded)
    IN  IF u = <<>> THEN Num(0)
        ELSE IF body = <<"I", "n", "f", "i", "n", "i", "t", "y">> THEN Inf
        ELSE IF /\ Cardinality(dots) <= 1
                /\ Len(whole) + Len(frac) > 0
                /\ Len(frac) <= 3
                /\ \A i \in DOMAIN whole : IsDigit(whole[i])
                /\ \A i \in DOMAIN frac : IsDigit(frac[i])
             THEN Num(IF signed /\ u[1] = "-" THEN 0 - magnitude ELSE magnitude)
             ELSE NaN

\* Number(x)
ToNumber(x) ==
    CASE x.t \in {"num", "inf", "nan"} -> x
      [] x.t = "undef" -> NaN
      [] x.t = "null" -> Num(0)
      [] x.t = "bool" -> IF x.n = 1 THEN Num(1000) ELSE Num(0)
      [] x.t = "str" -> StringToNumber(x.s)
      [] x.t = "arr" -> StringToNumber(JsString(x))
      [] OTHER -> NaN

\* the integer nearest a / b (b > 0); a tie goes away from zero when tieUp
RoundDiv(a, b, tieUp) ==
    LET q == Abs(a) \div b
        r == Abs(a) % b
        n == IF 2 * r > b \/ (2 * r = b /\ tieUp) THEN q + 1 ELSE q
    IN  IF a < 0 THEN 0 - n ELSE n

----------------------------------------------------------------------------
(* Nutrient helpers *)

EnergyIds == <<<<"1", "0", "0", "8">>, <<"E", "n", "e", "r", "g", "y">>>>
ProteinIds == <<<<"1", "0", "0", "3">>, <<"P", "r", "o", "t", "e", "i", "n">>>>
FatIds ==
    <<<<"1", "0", "0", "4">>,
      <<"T", "o", "t", "a", "l", " ", "l", "i", "p", "i", "d", " ", "(", "f", "a", "t", ")">>,
      <<"T", "o", "t", "a", "l", " ", "F", "a", "t">>>>
CarbIds ==
    <<<<"1", "0", "0", "5">>,
      <<"C", "a", "r", "b", "o", "h", "y", "d", "r", "a", "t", "e", ",", " ",
        "b", "y", " ", "d", "i", "f", "f", "e", "r", "e", "n", "c", "e">>,
      <<"C", "a", "r", "b", "o", "h", "y", "d", "r", "a", "t", "e">>>>

\* a ?? b
Coalesce(a, b) == IF Nullish(a) THEN b ELSE a

\* a || b
OrElse(a, b) == IF Falsy(a) THEN b ELSE a

\* the test of one record in findNutrient's loop
NutrientMatches(n, idsOrNames) ==
    LET number == Trim(JsString(Coalesce(Get(n, "nutrientNumber"),
                                         Coalesce(Get(n, "number"), Str(<<>>)))))
        name == Trim(JsString(Coalesce(Get(n, "nutrientName"),
                                       Coalesce(Get(n, "name"), Str(<<>>)))))
    IN  \E i \in DOMAIN idsOrNames :
            \/ idsOrNames[i] = number
            \/ ToLowerCase(idsOrNames[i]) = ToLowerCase(name)

\* findNutrient from index i on; reading a field of a null or undefined
\* element throws, and the catch returns null
RECURSIVE FindFrom(_, _, _)
FindFrom(nutrients, idsOrNames, i) ==
    IF i > Len(nutrients) THEN Null
    ELSE IF Nullish(nutrients[i]) THEN Null
    ELSE IF NutrientMatches(nutrients[i], idsOrNames) THEN nutrients[i]
    ELSE FindFrom(nutrients, idsOrNames, i + 1)

findNutrient(nutrients, idsOrNames) == FindFrom(nutrients, idsOrNames, 1)

\* (match.unitName || match.unit || '')
RawUnit(match) == OrElse(OrElse(Get(match, "unitName"), Get(match, "unit")), Str(<<>>))

\* typeof match.value === 'number' ? match.value : Number(match.value)
RawValue(match) == ToNumber(Get(match, "value"))

\* mutant: the value is cut to 1 decimal, not rounded
EnergyOfTruncated(unit, v, tieUp) ==
    IF unit = <<"k", "j">> THEN 100 * ((10 * v) \div 4184)
    ELSE 100 * (v \div 100)

\* Number((value / 4.184).toFixed(1)) and Number(value.toFixed(1))
EnergyOf(unit, v, tieUp) ==
    IF unit = <<"k", "j">> THEN 100 * RoundDiv(10 * v, 4184, tieUp)
    ELSE 100 * RoundDiv(v, 100, tieUp)

\* mutant: 0 in place of null when no record matches
getEnergyKcalZeroDefault(nutrients, tieUp) ==
    LET match == findNutrient(nutrients, EnergyIds)
    IN  IF Falsy(match) THEN Num(0)
        ELSE IF RawUnit(match).t # "str" THEN Null
        ELSE IF RawValue(match).t # "num" THEN Null
        ELSE Num(EnergyOf(ToLowerCase(RawUnit(match).s), RawValue(match).n, tieUp))

getEnergyKcal(nutrients, tieUp) ==
    LET match == findNutrient(nutrients, EnergyIds)
    IN  IF Falsy(match) THEN Null
        ELSE IF RawUnit(match).t # "str" THEN Null
        ELSE IF RawValue(match).t # "num" THEN Null
        ELSE Num(EnergyOf(ToLowerCase(RawUnit(match).s), RawValue(match).n, tieUp))

\* Number((value / 1000).toFixed(2)) and Number(value.toFixed(2))
GramsOf(unit, v, tieUp) ==
    IF unit = <<"m", "g">> THEN 10 * RoundDiv(v, 10000, tieUp)
    ELSE 10 * RoundDiv(v, 10, tieUp)

getNutrientGrams(nutrients, idsOrNames, tieUp) ==
    LET match == findNutrient(nutrients, idsOrNames)
    IN  IF Falsy(match) THEN Null
        ELSE IF RawUnit(match).t # "str" THEN Null
        ELSE IF RawValue(match).t # "num" THEN Null
        ELSE Num(GramsOf(ToLowerCase(RawUnit(match).s), RawValue(match).n, tieUp))

----------------------------------------------------------------------------
(* Food record normalizer: the callback of foods.map in the /foods handler *)

NormalizeItem(item, tieUp) ==
    LET raw == Get(item, "foodNutrients")
        nutrients == IF raw.t = "arr" THEN raw.a ELSE <<>>
    IN  Obj([fdcId |-> Coalesce(Get(item, "fdcId"), Null),
             description |-> Coalesce(Get(item, "description"), Null),
             brandName |-> Coalesce(Get(item, "brandName"),
                                    Coalesce(Get(item, "brandOwner"), Null)),
             servingSize |-> Coalesce(Get(item, "servingSize"), Null),
             servingSizeUnit |-> Coalesce(Get(item, "servingSizeUnit"), Null),
             calories |-> getEnergyKcal(nutrients, tieUp),
             macros |-> [protein_g |-> getNutrientGrams(nutrients, ProteinIds, tieUp),
                         carbs_g |-> getNutrientGrams(nutrients, CarbIds, tieUp),
                         fat_g |-> getNutrientGrams(nutrients, FatIds, tieUp)]])

\* Array.isArray(data?.foods) ? data.foods : []
FoodsOf(body) ==
    IF Get(body, "foods").t = "arr" THEN Get(body, "foods").a ELSE <<>>

\* foods.map(...).filter(Boolean)
NormalizeFoods(foods, tieUp) ==
    SelectSeq([i \in DOMAIN foods |-> NormalizeItem(foods[i], tieUp)],
              LAMBDA x : ~Falsy(x))

----------------------------------------------------------------------------
(* Upstream status mapping *)

\* response.ok
IsOk(status) == 200 <= status /\ status <= 299

statusMessages(status) ==
    CASE status = 400 -> <<"Invalid request sent to USDA API">>
      [] status = 401 -> <<"USDA API authentication failed">>
      [] status = 403 -> <<"Access to USDA API denied">>
      [] status = 404 -> <<"USDA API endpoint not found">>
      [] status = 429 -> <<"USDA API rate limit exceeded">>
      [] status = 500 -> <<"USDA API internal server error">>
      [] status = 502 -> <<"USDA API gateway error">>
      [] status = 503 -> <<"USDA API service unavailable">>
      [] status = 504 -> <<"USDA API gateway timeout">>
      [] OTHER -> <<"USDA API error occurred">>

Unparseable == JsValue("unparseable", 0, <<>>, <<>>, NoFields)

UnknownUpstreamError ==
    Obj([message |-> Str(<<"Unknown upstream error">>)])

\* the error thrown for a response that is not ok
UpstreamFailure(status, json) ==
    UpstreamAPIError(statusMessages(status), status,
                     IF json.t = "unparseable" THEN UnknownUpstreamError ELSE json)

\* the NetworkError thrown for a rejected fetch
FetchFailure(thrown) ==
    IF thrown.isError /\ thrown.name = "AbortError"
    THEN NetworkError(<<"Request to USDA API timed out. Please try again later.">>,
                      ErrorObject(thrown.message))
    ELSE IF thrown.isError /\ thrown.name = "TypeError" /\ thrown.mentionsFetch
    THEN NetworkError(<<"Failed to connect to USDA API. Please check your internet connection and try again.">>,
                      ErrorObject(thrown.message))
    ELSE NetworkError(<<"Network error occurred while fetching food data. Please try again later.">>,
                      IF thrown.isError THEN ErrorObject(thrown.message) ELSE NoOriginal)

----------------------------------------------------------------------------
(* Inputs the model draws *)

TypeAlphabet == {"a", "1", "-", " ", "@"}

Repeat(c, n) == [i \in 1..n |-> c]

NamedTypes ==
    {<<"t", "e", "s", "t">>, <<"T", "e", "S", "t">>, <<" ", "t", "e", "s", "t", " ">>,
     <<"D", "E", "B", "U", "G">>, <<"a", "d", "m", "i", "n">>,
     <<"S", "y", "s", "t", "e", "m">>, <<"t", "e", "s", "t", "s">>,
     <<"a", "p", "p", "l", "e">>, <<"_", "_">>, <<"a", "_", "b">>, <<"-", "\t", "-">>,
     <<"-", " ", "-">>, <<"a", " ", "1">>, <<"1", "2", "3">>, <<"1", " ", "2">>,
     Repeat("a", 100), Repeat("a", 101)}

TypeInputs ==
    {Undef} \cup {Str(s) : s \in AllSeqs(TypeAlphabet, MaxTypeLen) \cup NamedTypes}

LimitNumbers == (0..MaxSmallLimit) \cup {49, 50, 51, 100}

NamedLimits ==
    {<<>>, <<"+", "5">>, <<"-", "1">>, <<"0", "0", "7">>, <<"a", "b", "c">>,
     <<"5", "x">>, <<" ", "5">>, <<"1", ".", "5">>}

LimitInputs ==
    {Undef} \cup {Str(s) : s \in NamedLimits \cup {NatToDigits(n) : n \in LimitNumbers}}

ApiKeys == {Undef, Str(<<>>), Str(<<"k", "e", "y">>)}

UpstreamStatuses ==
    {200, 204, 304, 400, 401, 403, 404, 418, 429, 500, 501, 502, 503, 504, 599}

NoThrow == [isError |-> FALSE, name |-> "", mentionsFetch |-> FALSE, message |-> <<>>]

Thrown ==
    {[isError |-> TRUE, name |-> "AbortError", mentionsFetch |-> FALSE,
      message |-> <<"This operation was aborted">>],
     [isError |-> TRUE, name |-> "TimeoutError", mentionsFetch |-> FALSE,
      message |-> <<"The operation was aborted due to timeout">>],
     [isError |-> TRUE, name |-> "TypeError", mentionsFetch |-> TRUE,
      message |-> <<"fetch failed">>],
     [isError |-> TRUE, name |-> "TypeError", mentionsFetch |-> FALSE,
      message |-> <<"terminated">>],
     [isError |-> FALSE, name |-> "", mentionsFetch |-> FALSE, message |-> <<"thrown">>]}

\* nutrient records as the upstream sends them
Record(number, name, unit, value) ==
    Obj([nutrientNumber |-> number, nutrientName |-> name, unitName |-> unit,
         value |-> value])

EnergyKJ == Record(Str(<<"1", "0", "0", "8">>), Str(<<"E", "n", "e", "r", "g", "y">>),
                   Str(<<"k", "J">>), Num(100000))
ProteinMg == Obj([number |-> Num(1003000), name |-> Str(<<"p", "r", "o", "t", "e", "i", "n">>),
                  unit |-> Str(<<"M", "G">>), value |-> Str(<<"5", "0", "0">>)])
FatNoValue == Record(Str(<<"1", "0", "0", "4">>), Undef, Str(<<"G">>), Undef)
CarbTie == Record(Num(1005000), Undef, Str(<<"G">>), Num(13815))
Sodium == Record(Str(<<"1", "0", "9", "3">>), Str(<<"S", "o", "d", "i", "u", "m">>),
                 Str(<<"M", "G">>), Num(1000))

FoodItems ==
    {Null, Num(5000),
     Obj([fdcId |-> Num(1000), description |-> Str(<<"a", "p", "p", "l", "e">>),
          brandOwner |-> Str(<<"b">>), servingSize |-> Num(100000),
          servingSizeUnit |-> Str(<<"g">>),
          foodNutrients |-> Arr(<<EnergyKJ, ProteinMg, FatNoValue, CarbTie>>)]),
     Obj([fdcId |-> Num(2000), foodNutrients |-> Arr(<<Sodium>>)]),
     Obj([fdcId |-> Num(3000), foodNutrients |-> Str(<<"x">>)]),
     Obj([fdcId |-> Num(4000), foodNutrients |-> Arr(<<Null, EnergyKJ>>)])}

FoodLists == {<<>>} \cup {<<a>> : a \in FoodItems}
             \cup {<<Null, b, Num(5000)>> : b \in FoodItems \ {Null, Num(5000)}}

SuccessBodies ==
    {Unparseable, Null, Num(5000), Str(<<"o", "k">>), Arr(<<>>),
     Obj([totalHits |-> Num(0)]), Obj([foods |-> Null]),
     Obj([foods |-> Obj([totalHits |-> Num(0)])])}
    \cup {Obj([foods |-> Arr(l)]) : l \in FoodLists}

FailureDetails == Obj([message |-> Str(<<"d", "e", "n", "i", "e", "d">>)])

FailureBodies == {Unparseable, Null, FailureDetails}

FetchOutcomes ==
    {[kind |-> "throw", status |-> 0, json |-> Unparseable, thrown |-> e] : e \in Thrown}
    \cup {[kind |-> "response", status |-> st, json |-> FailureDetails, thrown |-> NoThrow] :
              st \in {x \in UpstreamStatuses : ~IsOk(x)}}
    \cup {[kind |-> "response", status |-> st, json |-> b, thrown |-> NoThrow] :
              st \in {404, 503}, b \in FailureBodies}
    \cup {[kind |-> "response", status |-> 200, json |-> b, thrown |-> NoThrow] :
              b \in SuccessBodies}
    \cup {[kind |-> "response", status |-> 204, json |-> Unparseable, thrown |-> NoThrow]}
    \* the headers arrived, then reading the body fails: response.json()
    \* rejects with the transport error
    \cup {[kind |-> "response", status |-> 200, json |-> Unparseable, thrown |-> e] :
              e \in {t \in Thrown : t.name \in {"TimeoutError", "TypeError"}
                                                     /\ ~t.mentionsFetch}}

NoOutcome == [kind |-> "none", status |-> 0, json |-> Unparseable, thrown |-> NoThrow]

NoRequest == [type |-> Undef, limit |-> Undef]

----------------------------------------------------------------------------
(* GET /foods *)

\* next(err): the global error handler answers
Fail(err) ==
    /\ resp' = ErrorHandler(err)
    /\ pc' = "done"

Receive(type, lim) ==
    /\ pc = "idle"
    /\ req' = [type |-> type, limit |-> lim]
    /\ pc' = "validate"
    /\ query' = <<>>
    /\ limit' = 0
    /\ upstream' = NoOutcome
    /\ data' = Undef
    /\ normalized' = <<>>
    /\ fetchCount' = 0
    /\ resp' = NoResponse
    /\ UNCHANGED <<usdaApiKey, fnIn, fnOut, limiterVars>>

Validate ==
    /\ pc = "validate"
    /\ req' = Sanitized(req)
    /\ IF ValidationErrors(req) # <<>>
       THEN Fail(ValidationError(<<"Invalid request parameters: ">>
                                 \o ValidationErrors(req)))
       ELSE pc' = "check-config" /\ resp' = resp
    /\ UNCHANGED <<usdaApiKey, query, limit, upstream, data, normalized,
                   fetchCount, fnIn, fnOut, limiterVars>>

\* mutant: usdaApiKey === undefined in place of !usdaApiKey
CheckConfigUndefinedOnly ==
    /\ pc = "check-config"
    /\ IF usdaApiKey.t = "undef"
       THEN Fail(ConfigurationError(<<"Server misconfiguration: USDA API key is not configured. Please contact the administrator.">>))
       ELSE pc' = "sanitize-query" /\ resp' = resp
    /\ UNCHANGED <<usdaApiKey, req, query, limit, upstream, data, normalized,
                   fetchCount, fnIn, fnOut, limiterVars>>

CheckConfig ==
    /\ pc = "check-config"
    /\ IF Falsy(usdaApiKey)
       THEN Fail(ConfigurationError(<<"Server misconfiguration: USDA API key is not configured. Please contact the administrator.">>))
       ELSE pc' = "sanitize-query" /\ resp' = resp
    /\ UNCHANGED <<usdaApiKey, req, query, limit, upstream, data, normalized,
                   fetchCount, fnIn, fnOut, limiterVars>>

\* the error the limit and food type checks throw, or none
SanitizeError(q, limitRaw) ==
    LET parsed == ParseInt(limitRaw)
    IN  IF parsed.nan \/ parsed.val <= 0
        THEN ValidationError(<<"Invalid limit value: '">> \o limitRaw
                             \o <<"'. Limit must be a positive number.">>)
        ELSE IF q = <<>>
        THEN FoodTypeError(<<"Food type cannot be empty. Please provide a valid food type to search for.">>)
        ELSE IF Len(q) < 2
        THEN FoodTypeError(<<"Food type must be at least 2 characters long for meaningful search results.">>)
        ELSE IF problematicPatterns(q)
        THEN FoodTypeError(<<"Invalid food type: '">> \o q
                           \o <<"'. Please provide a valid food name.">>)
        ELSE OtherError(<<>>)

SanitizeQuery ==
    LET q == Trim(req.type.s)
        limitRaw == Coalesce(req.limit, Str(<<"1", "0">>)).s
    IN  /\ pc = "sanitize-query"
        /\ IF SanitizeError(q, limitRaw).name # "Error"
           THEN Fail(SanitizeError(q, limitRaw)) /\ UNCHANGED <<query, limit>>
           ELSE /\ query' = q
                /\ limit' = Min(ParseInt(limitRaw).val, 50)
                /\ pc' = "call-upstream"
                /\ resp' = resp
        /\ UNCHANGED <<usdaApiKey, req, upstream, data, normalized, fetchCount,
                       fnIn, fnOut, limiterVars>>

\* mutant: a failed fetch is tried once more before it is reported
CallUpstreamRetried(outcome) ==
    /\ pc = "call-upstream"
    /\ upstream' = outcome
    /\ fetchCount' = fetchCount + 1
    /\ IF outcome.kind = "throw" /\ fetchCount = 0
       THEN pc' = "call-upstream" /\ resp' = resp
       ELSE IF outcome.kind = "throw"
       THEN Fail(FetchFailure(outcome.thrown))
       ELSE pc' = "map-upstream-status" /\ resp' = resp
    /\ UNCHANGED <<usdaApiKey, req, query, limit, data, normalized, fnIn, fnOut, limiterVars>>

CallUpstream(outcome) ==
    /\ pc = "call-upstream"
    /\ upstream' = outcome
    /\ fetchCount' = fetchCount + 1
    /\ IF outcome.kind = "throw"
       THEN Fail(FetchFailure(outcome.thrown))
       ELSE pc' = "map-upstream-status" /\ resp' = resp
    /\ UNCHANGED <<usdaApiKey, req, query, limit, data, normalized, fnIn, fnOut, limiterVars>>

MapUpstreamStatus ==
    /\ pc = "map-upstream-status"
    /\ IF ~IsOk(upstream.status)
       THEN Fail(UpstreamFailure(upstream.status, upstream.json))
       ELSE pc' = "parse-body" /\ resp' = resp
    /\ UNCHANGED <<usdaApiKey, req, query, limit, upstream, data, normalized,
                   fetchCount, fnIn, fnOut, limiterVars>>

ParseBody ==
    /\ pc = "parse-body"
    /\ IF upstream.json.t = "unparseable"
       THEN /\ Fail(ParsingError(<<"Failed to parse response from USDA API. The response format is invalid.">>,
                                 ErrorObject(<<"Unexpected token">>)))
            /\ data' = data
       ELSE IF Falsy(upstream.json) \/ upstream.json.t \notin {"obj", "arr", "null"}
       THEN /\ Fail(ParsingError(<<"Invalid response format from USDA API. Expected an object but received invalid data.">>,
                                 NoOriginal))
            /\ data' = upstream.json
       ELSE /\ data' = upstream.json
            /\ pc' = "normalize-items"
            /\ resp' = resp
    /\ UNCHANGED <<usdaApiKey, req, query, limit, upstream, normalized,
                   fetchCount, fnIn, fnOut, limiterVars>>

NormalizeItems(tieUp) ==
    /\ pc = "normalize-items"
    /\ normalized' = NormalizeFoods(FoodsOf(data), tieUp)
    /\ pc' = "respond"
    /\ UNCHANGED <<usdaApiKey, req, query, limit, upstream, data, fetchCount,
                   resp, fnIn, fnOut, limiterVars>>

\* res.status(200).json({ query, limit, count, foods })
Envelope(q, lim, foods) ==
    [status |-> 200,
     body |-> [query |-> q, limit |-> lim, count |-> Len(foods), foods |-> foods]]

Respond ==
    /\ pc = "respond"
    /\ resp' = Envelope(query, limit, normalized)
    /\ pc' = "done"
    /\ UNCHANGED <<usdaApiKey, req, query, limit, upstream, data, normalized,
                   fetchCount, fnIn, fnOut, limiterVars>>

\* the response is sent and the request ends; the server waits for the next
Finish ==
    /\ pc = "done"
    /\ pc' = "idle"
    /\ req' = NoRequest
    /\ query' = <<>>
    /\ limit' = 0
    /\ upstream' = NoOutcome
    /\ data' = Undef
    /\ normalized' = <<>>
    /\ fetchCount' = 0
    /\ resp' = NoResponse
    /\ UNCHANGED <<usdaApiKey, fnIn, fnOut, limiterVars>>

----------------------------------------------------------------------------
(* The rate limiter, mounted before every route *)

\* max: 100
max == 100

\* message
TooManyRequests ==
    [error |-> "Too many requests from this IP, please try again later.",
     retryAfter |-> "15 minutes"]

Clients == {"198.51.100.7", "203.0.113.9"}

\* app.get('/'), app.get('/health'), app.get('/foods'), app.use('*')
Routes == {"/", "/health", "/foods", "*"}

NoAnswer ==
    [client |-> "", status |-> 0, handler |-> "", error |-> "", retryAfter |-> ""]

\* mutant: the request that makes the count reach max is refused too
LimitedFromMax(totalHits) == totalHits >= max

\* the limiter refuses a request once the client's count exceeds max
Limited(totalHits) == totalHits > max

LimiterInit ==
    /\ hits = [c \in Clients |-> 0]
    /\ reached = [c \in Clients |-> 0]
    /\ pending = [c \in Clients |-> 0]
    /\ answer = NoAnswer

\* a request of client c arrives
Arrive(c) ==
    /\ pending[c] < MaxPending
    /\ hits[c] + pending[c] < max + MaxOver
    /\ pending' = [pending EXCEPT ![c] = pending[c] + 1]
    /\ UNCHANGED <<handlerVars, fnIn, fnOut, hits, reached, answer>>

\* app.use(limiter): the request is counted under its client address and
\* either refused with 429 and the message, or passed on to its route
Limiter(c, route) ==
    LET totalHits == hits[c] + 1
    IN  /\ pending[c] > 0
        /\ pending' = [pending EXCEPT ![c] = pending[c] - 1]
        /\ hits' = [hits EXCEPT ![c] = totalHits]
        /\ IF Limited(totalHits)
           THEN /\ answer' = [client |-> c, status |-> 429, handler |-> "",
                              error |-> TooManyRequests.error,
                              retryAfter |-> TooManyRequests.retryAfter]
                /\ reached' = reached
           ELSE /\ answer' = [client |-> c, status |-> 0, handler |-> route,
                              error |-> "", retryAfter |-> ""]
                /\ reached' = [reached EXCEPT ![c] = reached[c] + 1]
        /\ UNCHANGED <<handlerVars, fnIn, fnOut>>

\* windowMs: 15 minutes after its first counted request the client's count
\* is forgotten
WindowExpires(c) ==
    /\ hits[c] > 0
    /\ hits' = [hits EXCEPT ![c] = 0]
    /\ reached' = [reached EXCEPT ![c] = 0]
    /\ UNCHANGED <<handlerVars, fnIn, fnOut, pending, answer>>

NoCall == [fn |-> "none", nutrients |-> <<>>, ids |-> <<>>, tieUp |-> FALSE]

Init ==
    /\ usdaApiKey \in ApiKeys
    /\ pc = "idle"
    /\ req = NoRequest
    /\ query = <<>>
    /\ limit = 0
    /\ upstream = NoOutcome
    /\ data = Undef
    /\ normalized = <<>>
    /\ fetchCount = 0
    /\ resp = NoResponse
    /\ fnIn = NoCall
    /\ fnOut = Undef
    /\ LimiterInit

Next ==
    \/ /\ pc = "idle"
       /\ \E type \in TypeInputs, lim \in LimitInputs : Receive(type, lim)
    \/ Validate
    \/ CheckConfig
    \/ SanitizeQuery
    \/ /\ pc = "call-upstream"
       /\ \E outcome \in FetchOutcomes : CallUpstream(outcome)
    \/ MapUpstreamStatus
    \/ ParseBody
    \/ \E tieUp \in BOOLEAN : NormalizeItems(tieUp)
    \/ Respond
    \/ Finish

Spec == Init /\ [][Next]_vars

----------------------------------------------------------------------------
(* The nutrient helpers on their own: each call draws its arguments *)

IdSets == {EnergyIds, ProteinIds, FatIds, CarbIds}

Coded(number, name) == Record(number, name, Str(<<"G">>), Num(1000))

\* records that differ in how they are identified
FindRecords ==
    {Null, Num(5000), Sodium, EnergyKJ, ProteinMg,
     Coded(Str(<<"1", "0", "0", "3">>), Undef),
     Coded(Str(<<" ", "1", "0", "0", "3", " ">>), Null),
     Coded(Str(<<"1", "0", "0", "3", "0">>), Str(<<"P", "r", "o", "t", "e", "i", "n", "s">>)),
     Coded(Undef, Str(<<"P", "R", "O", "T", "E", "I", "N">>)),
     Coded(Null, Str(<<" ", "P", "r", "o", "t", "e", "i", "n", "\t">>)),
     Coded(Str(<<"p", "r", "o", "t", "e", "i", "n">>), Str(<<"1", "0", "0", "3">>)),
     Coded(Str(<<"e", "n", "e", "r", "g", "y">>), Undef),
     Coded(Num(1004000), Str(<<"t", "o", "t", "a", "l", " ", "f", "a", "t">>))}

Units ==
    {Undef, Null, Num(0), Num(5000), Str(<<>>),
     Str(<<"k", "J">>), Str(<<"K", "J">>), Str(<<"k", "j">>), Str(<<"K", "j">>),
     Str(<<" ", "k", "J">>), Str(<<"k", "c", "a", "l">>), Str(<<"K", "C", "A", "L">>),
     Str(<<"m", "g">>), Str(<<"M", "G">>), Str(<<"M", "g">>), Str(<<"g">>), Str(<<"G">>)}

Values ==
    {Num(v) : v \in (0..MaxMilli)
                    \cup {50, 150, 250, 1005, 2092, 4184, 13815, 100000, 123456,
                          500000, -5, -50, -1550}}
    \cup {Undef, Null, Inf, NaN, Bool(TRUE), Arr(<<>>), Obj([amount |-> Num(1000)]),
          Str(<<>>), Str(<<"a", "b", "c">>), Str(<<"1", "2", ".", "5">>),
          Str(<<" ", "7", " ">>), Str(<<"-", ".", "5">>), Str(<<"1", ".", "2", ".", "3">>),
          Str(<<"I", "n", "f", "i", "n", "i", "t", "y">>)}

\* records that differ in unit and value
ValueRecords ==
    {Record(Str(code), Undef, unit, value) :
        code \in {<<"1", "0", "0", "8">>, <<"1", "0", "0", "3">>},
        unit \in Units, value \in Values}
    \cup {Obj([number |-> Num(1005000), unit |-> unit, value |-> Num(500000)]) :
             unit \in Units}

NutrientLists ==
    AllSeqs(FindRecords, MaxNutrients) \cup {<<r>> : r \in ValueRecords}

CallFindNutrient(nutrients, idsOrNames) ==
    /\ fnIn = NoCall
    /\ fnIn' = [fn |-> "findNutrient", nutrients |-> nutrients,
                ids |-> idsOrNames, tieUp |-> FALSE]
    /\ fnOut' = findNutrient(nutrients, idsOrNames)
    /\ UNCHANGED <<handlerVars, limiterVars>>

CallGetEnergyKcal(nutrients, tieUp) ==
    /\ fnIn = NoCall
    /\ fnIn' = [fn |-> "getEnergyKcal", nutrients |-> nutrients,
                ids |-> EnergyIds, tieUp |-> tieUp]
    /\ fnOut' = getEnergyKcal(nutrients, tieUp)
    /\ UNCHANGED <<handlerVars, limiterVars>>

CallGetNutrientGrams(nutrients, idsOrNames, tieUp) ==
    /\ fnIn = NoCall
    /\ fnIn' = [fn |-> "getNutrientGrams", nutrients |-> nutrients,
                ids |-> idsOrNames, tieUp |-> tieUp]
    /\ fnOut' = getNutrientGrams(nutrients, idsOrNames, tieUp)
    /\ UNCHANGED <<handlerVars, limiterVars>>

Return ==
    /\ fnIn # NoCall
    /\ fnIn' = NoCall
    /\ fnOut' = Undef
    /\ UNCHANGED <<handlerVars, limiterVars>>

InitNutrient ==
    /\ usdaApiKey = Undef
    /\ pc = "idle"
    /\ req = NoRequest
    /\ query = <<>>
    /\ limit = 0
    /\ upstream = NoOutcome
    /\ data = Undef
    /\ normalized = <<>>
    /\ fetchCount = 0
    /\ resp = NoResponse
    /\ fnIn = NoCall
    /\ fnOut = Undef
    /\ LimiterInit

NextNutrient ==
    \/ /\ fnIn = NoCall
       /\ \E nutrients \in NutrientLists, ids \in IdSets :
              CallFindNutrient(nutrients, ids)
    \/ /\ fnIn = NoCall
       /\ \E nutrients \in NutrientLists, tieUp \in BOOLEAN :
              CallGetEnergyKcal(nutrients, tieUp)
    \/ /\ fnIn = NoCall
       /\ \E nutrients \in NutrientLists, ids \in IdSets \ {EnergyIds}, tieUp \in BOOLEAN :
              CallGetNutrientGrams(nutrients, ids, tieUp)
    \/ Return

SpecNutrient == InitNutrient /\ [][NextNutrient]_vars

----------------------------------------------------------------------------
(* Requests of several clients at the rate limiter *)

InitLimiter ==
    /\ usdaApiKey = Str(<<"k", "e", "y">>)
    /\ pc = "idle"
    /\ req = NoRequest
    /\ query = <<>>
    /\ limit = 0
    /\ upstream = NoOutcome
    /\ data = Undef
    /\ normalized = <<>>
    /\ fetchCount = 0
    /\ resp = NoResponse
    /\ fnIn = NoCall
    /\ fnOut = Undef
    /\ LimiterInit

NextLimiter ==
    \/ \E c \in Clients : Arrive(c)
    \/ \E c \in Clients, route \in Routes : Limiter(c, route)
    \/ \E c \in Clients : WindowExpires(c)

SpecLimiter == InitLimiter /\ [][NextLimiter]_vars

----------------------------------------------------------------------------
(* Properties of GET /foods, checked under Spec *)

Answered == pc = "done"

\* the integer a decimal string with an optional plus sign denotes
DecimalOf(s) == DigitsValue(IF s # <<>> /\ s[1] = "+" THEN Tail(s) ELSE s)

\* the request passes syntactic validation: type is 1-100 characters from
\* letters, digits, whitespace, hyphen, underscore; limit absent or 1..50
TypeSyntaxOk(x) ==
    /\ x.t = "str"
    /\ Len(Trim(x.s)) \in 1..100
    /\ \A i \in DOMAIN Trim(x.s) :
           \/ Trim(x.s)[i] \in Letters \cup DigitChars
           \/ Trim(x.s)[i] \in {" ", "\t", "\n", "-", "_"}

LimitSyntaxOk(x) == x.t = "undef" \/ (x.t = "str" /\ IsInt(x.s, 1, 50))

SyntaxOk(q) == TypeSyntaxOk(q.type) /\ LimitSyntaxOk(q.limit)

\* C1: every 200 answer of GET /foods has count equal to the length of its
\* foods array and a limit in 1..50 that is the requested limit, or 10 when
\* the request gave none.
C1_EnvelopeCountAndLimit ==
    (Answered /\ resp.status = 200) =>
        /\ resp.body.count = Len(resp.body.foods)
        /\ resp.body.limit \in 1..50
        /\ resp.body.limit = IF req.limit.t = "undef" THEN 10
                             ELSE DecimalOf(req.limit.s)

C1_Witness ==
    /\ Answered
    /\ resp.status = 200
    /\ req.limit = Str(<<"5", "0">>)
    /\ resp.body.limit = 50
    /\ resp.body.count = 3

\* C2 as stated: every error answer of GET /foods carries error, type and
\* timestamp and has an HTTP status among 400, 422, 429, 500, 503.
C2_ErrorEnvelopeAndStatus ==
    (Answered /\ resp.status # 200) =>
        /\ {"error", "type", "timestamp"} \subseteq DOMAIN resp.body
        /\ resp.status \in {400, 422, 429, 500, 503}

\* C2 amended: every error answer of the /foods handler carries error, type
\* and timestamp; its HTTP status is 400, 422, 500 or 503, or, for an
\* UpstreamAPIError, the upstream's own status when that is below 500.
C2_ErrorEnvelopeAndMappedStatus ==
    (Answered /\ resp.status # 200) =>
        /\ {"error", "type", "timestamp"} \subseteq DOMAIN resp.body
        /\ \/ resp.status \in {400, 422, 500, 503}
           \/ /\ resp.body.type = "UpstreamAPIError"
              /\ resp.status = resp.body.upstream_status
              /\ resp.status = upstream.status
              /\ resp.status < 500

C2_Witness ==
    /\ Answered
    /\ resp.status = 404
    /\ resp.body.type = "UpstreamAPIError"
    /\ {"error", "type", "timestamp"} \subseteq DOMAIN resp.body

TableStatuses == {400, 401, 403, 404, 429, 500, 502, 503, 504}

\* C3: an upstream answer with a non-success status s is reported as an
\* UpstreamAPIError with upstream_status s and HTTP status 503 when s >= 500
\* and s otherwise; the message is the generic one exactly when s is outside
\* the table, and upstream 429 gives HTTP 429 with the rate limit message.
C3_UpstreamStatusMapping ==
    (Answered /\ upstream.kind = "response"
              /\ (upstream.status < 200 \/ upstream.status > 299)) =>
        /\ resp.body.type = "UpstreamAPIError"
        /\ resp.body.upstream_status = upstream.status
        /\ resp.status = IF upstream.status >= 500 THEN 503 ELSE upstream.status
        /\ (resp.body.error = <<"USDA API error occurred">>)
               <=> (upstream.status \notin TableStatuses)
        /\ (upstream.status = 429) =>
               /\ resp.status = 429
               /\ resp.body.error = <<"USDA API rate limit exceeded">>

C3_Witness ==
    /\ Answered
    /\ upstream.kind = "response"
    /\ upstream.status = 429
    /\ resp.status = 429
    /\ resp.body.upstream_status = 429

\* C4: with no upstream credential, a request that passes syntactic
\* validation is answered ConfigurationError, HTTP 500, and one that fails
\* it is answered ValidationError, HTTP 400.
C4_MissingCredential ==
    (Answered /\ (usdaApiKey = Undef \/ usdaApiKey = Str(<<>>))) =>
        IF SyntaxOk(req)
        THEN resp.status = 500 /\ resp.body.type = "ConfigurationError"
        ELSE resp.status = 400 /\ resp.body.type = "ValidationError"

C4_Witness ==
    /\ Answered
    /\ usdaApiKey = Undef
    /\ req.type = Str(<<"1", "2", "3">>)
    /\ resp.status = 500
    /\ resp.body.type = "ConfigurationError"

AllDigits(s) == s # <<>> /\ \A i \in DOMAIN s : s[i] \in DigitChars

\* C5 as stated: a request (one that passes syntactic validation, as
\* type=123 and type=a do) whose type is all digits or has length 1 is
\* answered FoodTypeError, HTTP 400.
C5_DigitsOrShortRejected ==
    (Answered /\ SyntaxOk(req)
              /\ (AllDigits(req.type.s) \/ Len(req.type.s) = 1)) =>
        resp.status = 400 /\ resp.body.type = "FoodTypeError"

\* C5 amended: with the credential configured and syntactic validation
\* passed, a request whose trimmed type is all digits or has length 1 is
\* answered FoodTypeError, HTTP 400.
C5_DigitsOrShortRejectedWhenConfigured ==
    (Answered /\ ~Falsy(usdaApiKey) /\ SyntaxOk(req)
              /\ (AllDigits(Trim(req.type.s)) \/ Len(Trim(req.type.s)) = 1)) =>
        resp.status = 400 /\ resp.body.type = "FoodTypeError"

C5_Witness ==
    /\ Answered
    /\ ~Falsy(usdaApiKey)
    /\ req.type = Str(<<"1", "2", "3">>)
    /\ resp.status = 400
    /\ resp.body.type = "FoodTypeError"

HasWordChar(s) == \E i \in DOMAIN s : s[i] \in Letters \cup DigitChars \cup {"_"}

ReservedWord(s) ==
    /\ Len(s) \in {4, 5, 6}
    /\ [i \in DOMAIN s |-> ToLowerChar(s[i])]
           \in {<<"t", "e", "s", "t">>, <<"d", "e", "b", "u", "g">>,
                <<"a", "d", "m", "i", "n">>, <<"s", "y", "s", "t", "e", "m">>}

\* C6: after syntactic validation a type with no word character, or equal
\* to a reserved word in any letter case, is rejected and never forwarded;
\* every other type of length >= 2 that is not all digits is forwarded.
C6_SemanticTypeChecks ==
    (Answered /\ ~Falsy(usdaApiKey) /\ SyntaxOk(req)) =>
        /\ (~HasWordChar(req.type.s) \/ ReservedWord(req.type.s)) =>
               /\ fetchCount = 0
               /\ resp.body.type = "FoodTypeError"
        /\ (/\ HasWordChar(req.type.s)
            /\ ~ReservedWord(req.type.s)
            /\ Len(req.type.s) >= 2
            /\ ~AllDigits(req.type.s)) => fetchCount = 1

\* the upstream items of a success body
UpstreamItems(body) ==
    IF body.t = "obj" /\ "foods" \in DOMAIN body.o /\ body.o.foods.t = "arr"
    THEN body.o.foods.a ELSE <<>>

\* no record of the item's nutrient list carries an identifier of the four sets
NoMatchingNutrient(item) ==
    \/ item.t # "obj"
    \/ "foodNutrients" \notin DOMAIN item.o
    \/ item.o.foodNutrients.t # "arr"
    \/ \A i \in DOMAIN item.o.foodNutrients.a, ids \in IdSets :
           ~NutrientMatches(item.o.foodNutrients.a[i], ids)

AllNull(food) ==
    /\ food.o.calories = Null
    /\ food.o.macros.protein_g = Null
    /\ food.o.macros.carbs_g = Null
    /\ food.o.macros.fat_g = Null

\* C10: an upstream success body that is an object always gives HTTP 200,
\* with count at most the number of upstream items, count 0 when foods is
\* absent or no array, and null calories and macros for an item none of
\* whose nutrient records matches.
C10_ObjectBodyAlwaysAnswered ==
    (Answered /\ upstream.kind = "response"
              /\ upstream.status \in 200..299
              /\ upstream.json.t \in {"obj", "arr"}) =>
        /\ resp.status = 200
        /\ resp.body.count <= Len(UpstreamItems(upstream.json))
        /\ (resp.body.count = Len(UpstreamItems(upstream.json))) =>
               \A i \in 1..resp.body.count :
                   NoMatchingNutrient(UpstreamItems(upstream.json)[i])
                       => AllNull(resp.body.foods[i])

C10_Witness ==
    /\ Answered
    /\ resp.status = 200
    /\ resp.body.count = 3
    /\ NoMatchingNutrient(UpstreamItems(upstream.json)[2])
    /\ upstream.json.o.foods.a[2].t = "obj"
    /\ AllNull(resp.body.foods[2])

----------------------------------------------------------------------------
(* Properties of the nutrient helpers, checked under SpecNutrient *)

\* the trimmed text of the first of two fields that is neither absent nor null
FieldText(n, first, second) ==
    IF first \in DOMAIN n.o /\ n.o[first].t \notin {"undef", "null"}
    THEN Trim(JsString(n.o[first]))
    ELSE IF second \in DOMAIN n.o /\ n.o[second].t \notin {"undef", "null"}
    THEN Trim(JsString(n.o[second]))
    ELSE <<>>

\* the record's trimmed code is an identifier, or its trimmed name is one
\* up to letter case
Identified(n, ids) ==
    /\ n.t = "obj"
    /\ \E k \in DOMAIN ids :
           \/ FieldText(n, "nutrientNumber", "number") = ids[k]
           \/ ToLowerCase(FieldText(n, "nutrientName", "name")) = ToLowerCase(ids[k])

FirstIdentified(nutrients, ids) ==
    LET found == {i \in DOMAIN nutrients : Identified(nutrients[i], ids)}
    IN  IF found = {} THEN Null
        ELSE nutrients[CHOOSE i \in found : \A j \in found : i <= j]

NumericCall == fnIn.fn \in {"getEnergyKcal", "getNutrientGrams"}

\* C7: calories and the three macros are each a finite number or null, and
\* null whenever no record matches or the matched record's value is absent,
\* null or no finite number.
C7_FiniteOrNull ==
    NumericCall =>
        /\ fnOut.t \in {"num", "null"}
        /\ (\/ FirstIdentified(fnIn.nutrients, fnIn.ids).t = "null"
            \/ Get(FirstIdentified(fnIn.nutrients, fnIn.ids), "value").t
                   \in {"undef", "null", "inf", "nan"}) => fnOut.t = "null"

\* C8: findNutrient returns the first record, in list order, whose trimmed
\* code is an identifier or whose trimmed name is one up to letter case, and
\* null when no record of the list matches.
C8_FirstMatchingRecord ==
    (fnIn.fn = "findNutrient") =>
        fnOut = FirstIdentified(fnIn.nutrients, fnIn.ids)

KiloJoules == {<<"k", "j">>, <<"k", "J">>, <<"K", "j">>, <<"K", "J">>}
MilliGrams == {<<"m", "g">>, <<"m", "G">>, <<"M", "g">>, <<"M", "G">>}

\* r, a multiple of step thousandths, is a nearest one to num / den thousandths
Nearest(r, step, num, den) ==
    /\ r % step = 0
    /\ 2 * Abs(r * den - num) <= step * den

\* the record the helper matched, its unit text and its numeric value
Matched == findNutrient(fnIn.nutrients, fnIn.ids)
MatchedUnit == RawUnit(Matched).s
MatchedValue == Get(Matched, "value").n

\* C9: with a matched record of numeric value and text unit, energy is
\* value / 4.184 to 1 decimal for kilojoules in any letter case (100 kJ
\* gives 23.9) and the value to 1 decimal otherwise; mass is value / 1000
\* to 2 decimals for milligrams in any letter case (500 mg gives 0.5) and
\* the value to 2 decimals otherwise.
C9_UnitConversion ==
    (NumericCall /\ Matched.t = "obj" /\ Get(Matched, "value").t = "num"
                 /\ RawUnit(Matched).t = "str") =>
        /\ fnOut.t = "num"
        /\ (fnIn.fn = "getEnergyKcal") =>
               /\ IF MatchedUnit \in KiloJoules
                  THEN Nearest(fnOut.n, 100, 1000 * MatchedValue, 4184)
                  ELSE Nearest(fnOut.n, 100, MatchedValue, 1)
               /\ (MatchedUnit \in KiloJoules /\ MatchedValue = 100000)
                      => fnOut.n = 23900
        /\ (fnIn.fn = "getNutrientGrams") =>
               /\ IF MatchedUnit \in MilliGrams
                  THEN Nearest(fnOut.n, 10, MatchedValue, 1000)
                  ELSE Nearest(fnOut.n, 10, MatchedValue, 1)
               /\ (MatchedUnit \in MilliGrams /\ MatchedValue = 500000)
                      => fnOut.n = 500

C9_Witness ==
    /\ fnIn.fn = "getEnergyKcal"
    /\ Len(fnIn.nutrients) = 1
    /\ MatchedUnit = <<"K", "J">>
    /\ MatchedValue = 100000
    /\ fnOut = Num(23900)

----------------------------------------------------------------------------
(* The order of the handler's stages *)

Stages ==
    <<"validate", "check-config", "sanitize-query", "call-upstream",
      "map-upstream-status", "parse-body", "normalize-items", "respond">>

StageIndex(stage) == CHOOSE i \in DOMAIN Stages : Stages[i] = stage

InStage == \E i \in DOMAIN Stages : Stages[i] = pc

\* the checks the handler runs on the trimmed type all pass
SemanticChecksPassed(s) ==
    /\ Len(s) >= 2
    /\ ~AllDigits(s)
    /\ ~OnlySpecial(s)
    /\ ~ReservedWord(s)

\* C12: a /foods request passes its stages in the order validate,
\* check-config, sanitize-query, call-upstream, map-upstream-status,
\* parse-body, normalize-items, respond; a stage is left for the next stage
\* or, with the response made, for the end of the request; a failure makes
\* the response and enters no later stage; the upstream is called at most
\* once per request, in the call-upstream stage only, and only after
\* syntactic validation, the credential check and the checks of the type
\* have passed.
C12_StageOrderSingleCall ==
    [][/\ (InStage /\ pc' # pc) =>
              \/ pc' = "done" /\ resp' # NoResponse
              \/ /\ pc # "respond"
                 /\ pc' = Stages[StageIndex(pc) + 1]
                 /\ resp' = NoResponse
       /\ (InStage /\ resp' # resp) => pc' = "done"
       /\ (InStage /\ pc = "respond") => resp'.status = 200
       /\ (InStage /\ pc' = "done" /\ pc # "respond") => resp'.status # 200
       /\ pc = "idle" => pc' \in {"idle", "validate"}
       /\ (InStage /\ fetchCount' # fetchCount) =>
              /\ pc = "call-upstream"
              /\ fetchCount = 0
              /\ fetchCount' = 1
              /\ SyntaxOk(req)
              /\ ~Falsy(usdaApiKey)
              /\ SemanticChecksPassed(query)
       /\ (InStage /\ pc' # pc /\ StageIndex(pc) > 4) => fetchCount = 1
       /\ (InStage /\ StageIndex(pc) < 4) => fetchCount' = 0]_vars

\* a request answered after its one upstream call, by a late stage's failure
C12_Witness ==
    /\ pc = "done"
    /\ fetchCount = 1
    /\ upstream.kind = "response"
    /\ upstream.status = 200
    /\ resp.status = 422

----------------------------------------------------------------------------
(* Transport failures of the upstream call *)

\* the upstream call met a transport error: the fetch rejected, or the
\* reading of the body did
TransportFailed == upstream.kind # "none" /\ upstream.thrown # NoThrow

\* C13: a /foods request whose upstream call timed out or failed at the
\* network level, whatever the name or message of the transport error, is
\* answered NetworkError, HTTP 503.
C13_TransportFailureIsNetworkError ==
    (Answered /\ TransportFailed) =>
        resp.status = 503 /\ resp.body.type = "NetworkError"

\* the part of C13 about a fetch that rejects: answered NetworkError, 503
C13_RejectedFetchIsNetworkError ==
    (Answered /\ upstream.kind = "throw") =>
        resp.status = 503 /\ resp.body.type = "NetworkError"

----------------------------------------------------------------------------
(* The rate limit *)

\* the limiter dealt with a request of client c in this step
Decided(c) == pending'[c] < pending[c]

====
